---- MODULE Spec2Model ----
(***************************************************************************)
(* Order-book replay engine of hiibolt/mbo: the per-(instrument,publisher) *)
(* Book state machine of mbo-backend/src/datatypes/book.rs.                *)
(***************************************************************************)
EXTENDS Integers, Sequences, FiniteSets, TLC

VARIABLES orders_by_id, offers, bids, steps, hist

\* Market.books, and the locals of load_market_snapshots
VARIABLES books, storage, snapshots, batch, sink, status
bookVars == <<orders_by_id, offers, bids>>
loaderVars == <<storage, snapshots, batch, sink, status>>

\* the iteration order of the process's HashMaps, and the SSE stream
\* connections with the gauge and the read lock they share
VARIABLES hash_order, conns, active_connections, readers
sseVars == <<hash_order, conns, active_connections, readers>>

\* the position of a running match_crossed_orders: "idle" outside of it,
\* "loop" at the head of its loop, "done" after its break
VARIABLES repair
vars == <<orders_by_id, offers, bids, steps, hist, books,
          storage, snapshots, batch, sink, status,
          hash_order, conns, active_connections, readers, repair>>

(***************************************************************************)
(* Bounds of the model.                                                    *)
(***************************************************************************)
MaxId == 2
MaxPrice == 3
MaxSize == 2
MaxSteps == 3
MaxScenLen == 4
MaxInstrument == 2
MaxPublisher == 3
MaxMarketLen == 3
MaxFeedLen == 3
MaxFillerLen == 1001
MaxConns == 3
MaxSnapshots == 2

(***************************************************************************)
(* Values of the message fields.                                           *)
(***************************************************************************)
\* dbn::UNDEF_PRICE is i64::MAX: a price above every real price.
UNDEF_PRICE == MaxPrice + 1

Ids == 1..MaxId
Prices == 1..MaxPrice
MsgPrices == Prices \cup {UNDEF_PRICE}
Sizes == 0..MaxSize
Sides == {"Bid", "Ask", "None"}
NoopActions == {"Trade", "Fill", "None"}

\* Option<T>: None is the empty sequence, Some(x) the one-element sequence.
None == <<>>
Some(x) == <<x>>

\* anyhow::Result of Book.apply: Ok(()) or Ok after a warn!("Skipped ...")
\* or one of the errors raised by context()/ensure!/bail!.
Ok(B) == [book |-> B, res |-> "Ok"]
Skipped(B) == [book |-> B, res |-> "Skipped"]
Err(B, kind) == [book |-> B, res |-> kind]
Errors == {"InvalidAction", "InvalidSide", "InvalidPrice", "DuplicateOrder",
           "CancelExceedsSize", "InternalInconsistency"}

(***************************************************************************)
(* Maps (BTreeMap / HashMap) are functions whose domain is the key set.    *)
(***************************************************************************)
EmptyMap == [k \in {} |-> k]
MapPut(f, k, v) == (k :> v) @@ f
MapDel(f, k) == [x \in (DOMAIN f) \ {k} |-> f[x]]

SetMax(S) == CHOOSE x \in S : \A y \in S : y <= x
SetMin(S) == CHOOSE x \in S : \A y \in S : x <= y

\* The MboMsg stored in a Level (the fields the book reads back).
StoredOrder(m) ==
    [order_id |-> m.order_id, side |-> m.side, price |-> m.price,
     size |-> m.size, tob |-> m.tob]

\* struct Book
Book == [orders_by_id |-> orders_by_id, offers |-> offers, bids |-> bids]
NewBook == [orders_by_id |-> EmptyMap, offers |-> EmptyMap, bids |-> EmptyMap]

(***************************************************************************)
(* Private helpers of Book.                                                *)
(***************************************************************************)
\* side_levels_mut / side_levels: Ok for Ask and Bid, bail!("Invalid side None").
side_levels_ok(side) == side \in {"Ask", "Bid"}
side_levels(B, side) == IF side = "Ask" THEN B.offers ELSE B.bids
\* faulty variant: the two sides are swapped when a side index is written
side_levels_mut_swapped(B, side, levels) ==
    IF side = "Ask" THEN [B EXCEPT !.bids = levels] ELSE [B EXCEPT !.offers = levels]

side_levels_mut(B, side, levels) ==
    IF side = "Ask" THEN [B EXCEPT !.offers = levels] ELSE [B EXCEPT !.bids = levels]

\* find_order: 1-based position of the first order with that id, 0 for Err.
find_order(level, order_id) ==
    IF \E i \in 1..Len(level) : level[i].order_id = order_id
    THEN SetMin({i \in 1..Len(level) : level[i].order_id = order_id})
    ELSE 0

\* VecDeque::remove(index)
RemoveAt(level, idx) ==
    [i \in 1..(Len(level) - 1) |-> IF i < idx THEN level[i] ELSE level[i + 1]]

\* remove_order (callers have checked that find_order succeeds)
remove_order(level, order_id) == RemoveAt(level, find_order(level, order_id))

\* level_mut: Ok iff the side is valid and the price is a key of that side.
level_mut_ok(B, side, price) ==
    side_levels_ok(side) /\ price \in DOMAIN side_levels(B, side)

\* get_or_insert_level followed by push_back(order)
push_back_level(B, side, price, ord) ==
    LET levels == side_levels(B, side)
        level == IF price \in DOMAIN levels THEN levels[price] ELSE <<>>
    IN side_levels_mut(B, side, MapPut(levels, price, Append(level, ord)))

\* remove_level (callers have checked side and key)
remove_level(B, side, price) ==
    side_levels_mut(B, side, MapDel(side_levels(B, side), price))

\* the `for order in level { orders_by_id.remove(order.order_id) }` loops
RemoveIds(ids, level) ==
    [k \in (DOMAIN ids) \ {level[i].order_id : i \in 1..Len(level)} |-> ids[k]]

(***************************************************************************)
(* Book::match_crossed_orders                                              *)
(***************************************************************************)
\* lines 161-165: both sides have a best price and best bid >= best ask
IsCrossed(B) ==
    /\ DOMAIN B.bids # {} /\ DOMAIN B.offers # {}
    /\ SetMax(DOMAIN B.bids) >= SetMin(DOMAIN B.offers)

\* faulty variant: the ids of the crossed Levels are removed, the Levels stay
remove_crossed_levels_ids_only(B) ==
    LET bid_px == SetMax(DOMAIN B.bids)
        ask_px == SetMin(DOMAIN B.offers)
    IN [B EXCEPT !.orders_by_id =
           RemoveIds(RemoveIds(@, B.bids[bid_px]), B.offers[ask_px])]

\* lines 177-189: one turn of the loop on a crossed book
remove_crossed_levels(B) ==
    LET bid_px == SetMax(DOMAIN B.bids)
        ask_px == SetMin(DOMAIN B.offers)
        ids1 == RemoveIds(B.orders_by_id, B.bids[bid_px])
        ids2 == RemoveIds(ids1, B.offers[ask_px])
    IN [orders_by_id |-> ids2,
        offers |-> MapDel(B.offers, ask_px),
        bids |-> MapDel(B.bids, bid_px)]

\* faulty variant: the repair evicts the crossed bid Level and leaves the ask Level
RECURSIVE match_crossed_orders_bid_only(_)
match_crossed_orders_bid_only(B) ==
    IF DOMAIN B.bids # {} /\ DOMAIN B.offers # {}
       /\ SetMax(DOMAIN B.bids) >= SetMin(DOMAIN B.offers)
    THEN LET bid_px == SetMax(DOMAIN B.bids)
         IN match_crossed_orders_bid_only(
                [orders_by_id |-> RemoveIds(B.orders_by_id, B.bids[bid_px]),
                 offers |-> B.offers,
                 bids |-> MapDel(B.bids, bid_px)])
    ELSE B

RECURSIVE match_crossed_orders(_)
match_crossed_orders(B) ==
    IF IsCrossed(B) THEN match_crossed_orders(remove_crossed_levels(B)) ELSE B

(***************************************************************************)
(* Book::clear                                                             *)
(***************************************************************************)
\* faulty variant: Clear empties the two sides and keeps the id index
clear_levels_only(B) == [NewBook EXCEPT !.orders_by_id = B.orders_by_id]

clear(B) == NewBook

(***************************************************************************)
(* Book::add                                                               *)
(***************************************************************************)
\* faulty variant: the TOB order is put on its side without clearing the side
add_tob_keeps_side(B, m) ==
    IF ~side_levels_ok(m.side) THEN Err(B, "InvalidSide")
    ELSE IF m.price # UNDEF_PRICE
         THEN Ok(side_levels_mut(B, m.side,
                     MapPut(side_levels(B, m.side), m.price, <<StoredOrder(m)>>)))
         ELSE Ok(B)

\* lines 128-135: the TOB form replaces the whole side
add_tob(B, m) ==
    LET price == m.price
        side == m.side
    IN IF ~side_levels_ok(side) THEN Err(B, "InvalidSide")
       ELSE IF m.price # UNDEF_PRICE
            THEN Ok(side_levels_mut(B, side, MapPut(EmptyMap, price, <<StoredOrder(m)>>)))
            ELSE Ok(side_levels_mut(B, side, EmptyMap))

\* lines 136-148: a resting order
add_order(B, m) ==
    LET price == m.price
        side == m.side
    IN IF price = UNDEF_PRICE THEN Err(B, "InvalidPrice")
       ELSE LET \* HashMap::insert runs before ensure! looks at its result
                B1 == [B EXCEPT !.orders_by_id =
                          MapPut(@, m.order_id, [side |-> side, price |-> price])]
            IN IF m.order_id \in DOMAIN B.orders_by_id
               THEN Err(B1, "DuplicateOrder")
               ELSE IF ~side_levels_ok(side) THEN Err(B1, "InvalidSide")
               ELSE Ok(match_crossed_orders(
                           push_back_level(B1, side, price, StoredOrder(m))))

\* faulty variant: the duplicate-id check runs before the price check
add_duplicate_first(B, m) ==
    IF m.tob THEN add_tob(B, m)
    ELSE IF m.order_id \in DOMAIN B.orders_by_id
         THEN Err([B EXCEPT !.orders_by_id =
                      MapPut(@, m.order_id, [side |-> m.side, price |-> m.price])],
                  "DuplicateOrder")
         ELSE add_order(B, m)

add(B, m) == IF m.tob THEN add_tob(B, m) ELSE add_order(B, m)

(***************************************************************************)
(* Book::cancel                                                            *)
(***************************************************************************)
\* faulty variant: the size comparison of the ensure! is inverted
cancel_size_ok_inverted(existing_size, m) == existing_size <= m.size

\* lines 220-226: ensure!(existing_order.size >= mbo.size, ..)
cancel_size_ok(existing_size, m) == existing_size >= m.size

\* faulty variant: an order cancelled down to size 0 stays in its Level
order_is_spent_never(new_size) == new_size < 0

\* line 228: if existing_order.size == 0
order_is_spent(new_size) == new_size = 0

cancel(B, m) ==
    LET side == m.side
    IN IF ~level_mut_ok(B, side, m.price) THEN Skipped(B)
       ELSE LET level == side_levels(B, side)[m.price]
                order_idx == find_order(level, m.order_id)
            IN IF order_idx = 0 THEN Skipped(B)
               ELSE LET existing_order == level[order_idx]
                    IN IF ~cancel_size_ok(existing_order.size, m)
                       THEN Err(B, "CancelExceedsSize")
                       ELSE LET new_size == existing_order.size - m.size
                                level1 == [level EXCEPT ![order_idx].size = new_size]
                                B1 == side_levels_mut(B, side,
                                          MapPut(side_levels(B, side), m.price, level1))
                            IN IF order_is_spent(new_size)
                               THEN LET level2 == RemoveAt(level1, order_idx)
                                        B2 == side_levels_mut(B, side,
                                                  MapPut(side_levels(B, side), m.price, level2))
                                        B3 == IF level2 = <<>>
                                              THEN remove_level(B2, side, m.price)
                                              ELSE B2
                                    IN Ok([B3 EXCEPT !.orders_by_id = MapDel(@, m.order_id)])
                               ELSE Ok(B1)

(***************************************************************************)
(* Book::modify                                                            *)
(***************************************************************************)
\* faulty variant: priority is kept only by a strictly smaller size
should_keep_priority_strict(prev_price, existing_size, m) ==
    prev_price = m.price /\ existing_size > m.size

\* line 261, evaluated after line 260 has stored mbo.size in the order
should_keep_priority(prev_price, existing_size, m) ==
    prev_price = m.price /\ existing_size >= m.size

\* lines 249-277: the order id was found in orders_by_id
modify_found(B, m) ==
    LET order_id == m.order_id
        side == m.side
        prev_side == B.orders_by_id[order_id].side
        prev_price == B.orders_by_id[order_id].price
        B1 == [B EXCEPT !.orders_by_id[order_id] = [side |-> side, price |-> m.price]]
    IN IF ~side_levels_ok(prev_side) THEN Err(B1, "InvalidSide")
       ELSE IF prev_price \notin DOMAIN side_levels(B1, prev_side)
            THEN Err(B1, "InternalInconsistency")
       ELSE
       LET level == side_levels(B1, prev_side)[prev_price]
           order_idx == find_order(level, order_id)
       IN IF order_idx = 0 THEN Err(B1, "InternalInconsistency")
          ELSE
          LET level1 == [level EXCEPT ![order_idx].size = m.size]
              existing_size == level1[order_idx].size
              B2 == side_levels_mut(B1, prev_side,
                        MapPut(side_levels(B1, prev_side), prev_price, level1))
          IN IF should_keep_priority(prev_price, existing_size, m) THEN Ok(B2)
             ELSE IF prev_price # m.price
             THEN LET prev_level == remove_order(level1, order_id)
                      B3 == side_levels_mut(B2, prev_side,
                                MapPut(side_levels(B2, prev_side), prev_price, prev_level))
                  IN IF prev_level = <<>>
                     THEN \* remove_level is called with the message's side
                          IF ~side_levels_ok(side) THEN Err(B3, "InvalidSide")
                          ELSE IF prev_price \notin DOMAIN side_levels(B3, side)
                               THEN Err(B3, "InternalInconsistency")
                          ELSE Ok(push_back_level(remove_level(B3, side, prev_price),
                                                  side, m.price, StoredOrder(m)))
                     ELSE IF ~side_levels_ok(side) THEN Err(B3, "InvalidSide")
                          ELSE Ok(push_back_level(B3, side, m.price, StoredOrder(m)))
             ELSE Ok(side_levels_mut(B2, prev_side,
                        MapPut(side_levels(B2, prev_side), prev_price,
                               Append(remove_order(level1, order_id), StoredOrder(m)))))

\* faulty variant: a Modify of an unknown order is treated as an Add
modify_unknown_as_add(B, m) ==
    IF m.order_id \notin DOMAIN B.orders_by_id THEN add(B, m) ELSE modify_found(B, m)

modify(B, m) ==
    IF m.order_id \notin DOMAIN B.orders_by_id THEN Skipped(B) ELSE modify_found(B, m)

(***************************************************************************)
(* Book::apply                                                             *)
(***************************************************************************)
\* faulty variant: a Fill reduces the resting order as a Cancel does
apply_fill_cancels(B, m) ==
    CASE m.action = "Invalid" -> Err(B, "InvalidAction")
      [] m.action = "Modify" -> modify(B, m)
      [] m.action \in {"Trade", "None"} -> Ok(B)
      [] m.action \in {"Cancel", "Fill"} -> cancel(B, m)
      [] m.action = "Add" -> add(B, m)
      [] m.action = "Clear" -> Ok(clear(B))

apply(B, m) ==
    CASE m.action = "Invalid" -> Err(B, "InvalidAction")
      [] m.action = "Modify" -> modify(B, m)
      [] m.action \in NoopActions -> Ok(B)
      [] m.action = "Cancel" -> cancel(B, m)
      [] m.action = "Add" -> add(B, m)
      [] m.action = "Clear" -> Ok(clear(B))

(***************************************************************************)
(* Queries of Book.                                                        *)
(***************************************************************************)
RECURSIVE SumSizes(_)
SumSizes(level) ==
    IF level = <<>> THEN 0 ELSE level[1].size + SumSizes(Tail(level))

RECURSIVE CountNonTob(_)
CountNonTob(level) ==
    IF level = <<>> THEN 0
    ELSE (IF level[1].tob THEN 0 ELSE 1) + CountNonTob(Tail(level))

\* faulty variant: TOB orders are counted as well
PriceLevel_new_count_all(price, orders) ==
    [price |-> price, size |-> SumSizes(orders), count |-> Len(orders)]

\* PriceLevel::new
PriceLevel_new(price, orders) ==
    [price |-> price, size |-> SumSizes(orders), count |-> CountNonTob(orders)]

\* the idx-th smallest (0-based) element of a set of prices, for iter().nth(idx)
RECURSIVE NthMin(_, _)
NthMin(S, idx) == IF idx = 0 THEN SetMin(S) ELSE NthMin(S \ {SetMin(S)}, idx - 1)
RECURSIVE NthMax(_, _)
NthMax(S, idx) == IF idx = 0 THEN SetMax(S) ELSE NthMax(S \ {SetMax(S)}, idx - 1)

bid_level(B, idx) ==
    IF idx < Cardinality(DOMAIN B.bids)
    THEN LET px == NthMax(DOMAIN B.bids, idx) IN Some(PriceLevel_new(px, B.bids[px]))
    ELSE None

ask_level(B, idx) ==
    IF idx < Cardinality(DOMAIN B.offers)
    THEN LET px == NthMin(DOMAIN B.offers, idx) IN Some(PriceLevel_new(px, B.offers[px]))
    ELSE None

bbo(B) == <<bid_level(B, 0), ask_level(B, 0)>>

order(B, order_id) ==
    IF order_id \notin DOMAIN B.orders_by_id THEN None
    ELSE LET side == B.orders_by_id[order_id].side
             price == B.orders_by_id[order_id].price
         IN IF ~side_levels_ok(side) THEN None
            ELSE IF price \notin DOMAIN side_levels(B, side) THEN None
            ELSE LET level == side_levels(B, side)[price]
                     idx == find_order(level, order_id)
                 IN IF idx = 0 THEN None ELSE Some(level[idx])

\* take_while(order_id != id).fold(0, +size): the whole Level when the id is absent
queue_pos(B, order_id) ==
    IF order_id \notin DOMAIN B.orders_by_id THEN None
    ELSE LET side == B.orders_by_id[order_id].side
             price == B.orders_by_id[order_id].price
         IN IF ~side_levels_ok(side) THEN None
            ELSE IF price \notin DOMAIN side_levels(B, side) THEN None
            ELSE LET level == side_levels(B, side)[price]
                     idx == find_order(level, order_id)
                     ahead == IF idx = 0 THEN level ELSE SubSeq(level, 1, idx - 1)
                 IN Some(SumSizes(ahead))

(***************************************************************************)
(* The state machine: one message applied to the Book per step.            *)
(***************************************************************************)
Msg(a, id, s, p, q, t) ==
    [action |-> a, order_id |-> id, side |-> s, price |-> p, size |-> q, tob |-> t]

AddMsgs ==
    {Msg("Add", id, s, p, q, t) :
        id \in Ids, s \in Sides, p \in MsgPrices, q \in Sizes, t \in BOOLEAN}
CancelMsgs ==
    {Msg("Cancel", id, s, p, q, FALSE) :
        id \in Ids, s \in Sides, p \in MsgPrices, q \in Sizes}
ModifyMsgs ==
    {Msg("Modify", id, s, p, q, t) :
        id \in Ids, s \in Sides, p \in MsgPrices, q \in Sizes, t \in BOOLEAN}
ClearMsgs == {Msg("Clear", 0, "None", UNDEF_PRICE, 0, FALSE)}
NoopMsgs ==
    {Msg(a, 1, s, 1, 1, FALSE) : a \in NoopActions \cup {"Invalid"}, s \in Sides}

Fresh ==
    /\ orders_by_id = EmptyMap
    /\ offers = EmptyMap
    /\ bids = EmptyMap
    /\ steps = 0
    /\ hist = <<>>
    /\ books = EmptyMap
    /\ snapshots = <<>>
    /\ batch = <<>>
    /\ sink = <<>>
    /\ status = "Running"
    /\ repair = "idle"

\* no stream connection yet
NoStreams ==
    /\ conns = <<>>
    /\ active_connections = 0
    /\ readers = {}

Init == Fresh /\ storage = FALSE /\ hash_order = "asc" /\ NoStreams

\* Book.apply(m) on the book of the current state
Step(m) ==
    LET r == apply(Book, m)
    IN /\ orders_by_id' = r.book.orders_by_id
       /\ offers' = r.book.offers
       /\ bids' = r.book.bids
       /\ UNCHANGED <<books, loaderVars, sseVars, repair>>

\* one more message of the replayed feed
Replayed == steps < MaxSteps /\ steps' = steps + 1 /\ UNCHANGED hist

Add ==
    /\ Replayed
    /\ \E m \in AddMsgs : Step(m)

Cancel ==
    /\ Replayed
    /\ \E m \in CancelMsgs : Step(m)

Modify ==
    /\ Replayed
    /\ \E m \in ModifyMsgs : Step(m)

Clear ==
    /\ Replayed
    /\ \E m \in ClearMsgs : Step(m)

Noop ==
    /\ Replayed
    /\ \E m \in NoopMsgs : Step(m)

Next == Add \/ Cancel \/ Modify \/ Clear \/ Noop

Spec == Init /\ [][Next]_vars

(***************************************************************************)
(* The end-to-end scenarios S1-S6 of the specification, replayed message   *)
(* by message with the history kept: any of the scenarios' messages may    *)
(* come next.                                                              *)
(***************************************************************************)
S_Add1 == Msg("Add", 1, "Bid", 100, 10, FALSE)
S_Add2Ask == Msg("Add", 2, "Ask", 101, 5, FALSE)
S_Add3 == Msg("Add", 3, "Bid", 102, 7, FALSE)
S_Add2Bid == Msg("Add", 2, "Bid", 100, 5, FALSE)
S_Cancel4 == Msg("Cancel", 1, "Bid", 100, 4, FALSE)
S_Cancel6 == Msg("Cancel", 1, "Bid", 100, 6, FALSE)
S_Cancel42 == Msg("Cancel", 42, "Bid", 99, 1, FALSE)
S_Modify8 == Msg("Modify", 1, "Bid", 100, 8, FALSE)
S_Modify20 == Msg("Modify", 1, "Bid", 100, 20, FALSE)

ScenarioAdds == {S_Add1, S_Add2Ask, S_Add3, S_Add2Bid}
ScenarioCancels == {S_Cancel4, S_Cancel6, S_Cancel42}
ScenarioModifies == {S_Modify8, S_Modify20}

S5 == <<S_Add1, S_Add2Ask, S_Add3>>
S6 == <<S_Add1, S_Add2Bid, S_Modify8, S_Modify20>>

ScenarioStep(m) == hist' = Append(hist, m) /\ Step(m)

ScenarioAdd ==
    /\ Len(hist) < MaxScenLen
    /\ UNCHANGED steps
    /\ \E m \in ScenarioAdds : ScenarioStep(m)

ScenarioCancel ==
    /\ Len(hist) < MaxScenLen
    /\ UNCHANGED steps
    /\ \E m \in ScenarioCancels : ScenarioStep(m)

ScenarioModify ==
    /\ Len(hist) < MaxScenLen
    /\ UNCHANGED steps
    /\ \E m \in ScenarioModifies : ScenarioStep(m)

NextScenario == ScenarioAdd \/ ScenarioCancel \/ ScenarioModify

SpecScenario == Init /\ [][NextScenario]_vars

(***************************************************************************)
(* Market: instrument_id -> sequence of (Publisher, Book).                 *)
(***************************************************************************)
Instruments == 1..MaxInstrument
Publishers == 1..MaxPublisher
\* publisher_id 0 is not a Publisher: mbo.publisher() fails on it
PublisherIds == 0..MaxPublisher

NewMarket == EmptyMap

\* an MboMsg with the header fields Market reads
MarketMsg(instrument_id, publisher_id, m) ==
    [instrument_id |-> instrument_id, publisher_id |-> publisher_id, mbo |-> m]

\* faulty variant: the first Book of the instrument is taken, whoever published it
find_publisher_first(pub_books, publisher) ==
    IF pub_books = <<>> THEN 0 ELSE 1

\* index of the publisher's entry in a publisher sequence, 0 when it has none
find_publisher(pub_books, publisher) ==
    IF \E i \in 1..Len(pub_books) : pub_books[i].publisher = publisher
    THEN CHOOSE i \in 1..Len(pub_books) :
             /\ pub_books[i].publisher = publisher
             /\ \A j \in 1..(i - 1) : pub_books[j].publisher # publisher
    ELSE 0

\* faulty variant: a new publisher's Book is put at the front of the sequence
push_publisher_front(pub_books, publisher) ==
    <<[publisher |-> publisher, book |-> NewBook]>> \o pub_books

\* books.push((publisher.clone(), Book::default()))
push_publisher(pub_books, publisher) ==
    Append(pub_books, [publisher |-> publisher, book |-> NewBook])

\* faulty variant: publisher_created is set on every message
created_publisher_always(idx, publisher) == Some(publisher)

\* created_publisher: Some(publisher) when the Book was pushed by this call
created_publisher(idx, publisher) == IF idx = 0 THEN Some(publisher) ELSE None

\* Market::apply; on an error no MarketEffect is returned (effect = None),
\* and the Book pushed before Book::apply failed stays in the Market
market_apply(M, m) ==
    IF m.publisher_id \notin Publishers
    THEN [market |-> M, res |-> "InvalidPublisher", effect |-> None]
    ELSE LET publisher == m.publisher_id
             pub_books == IF m.instrument_id \in DOMAIN M
                          THEN M[m.instrument_id] ELSE <<>>
             idx == find_publisher(pub_books, publisher)
             pushed == IF idx = 0 THEN push_publisher(pub_books, publisher)
                       ELSE pub_books
             at == find_publisher(pushed, publisher)
             r == apply(pushed[at].book, m.mbo)
             M1 == MapPut(M, m.instrument_id, [pushed EXCEPT ![at].book = r.book])
         IN IF r.res \in Errors
            THEN [market |-> M1, res |-> r.res, effect |-> None]
            ELSE [market |-> M1, res |-> "Ok",
                  effect |-> Some([publisher_created |-> created_publisher(idx, publisher),
                                   book_effect |-> r.res])]

\* Market::books_by_pub
books_by_pub(M, instrument_id) ==
    IF instrument_id \in DOMAIN M THEN Some(M[instrument_id]) ELSE None

\* faulty variant: on a tie the later publisher's level replaces the merged one
merge_bid_replace_on_tie(agg_bid, bid) ==
    IF bid = None THEN agg_bid
    ELSE IF agg_bid = None THEN bid
    ELSE IF bid[1].price >= agg_bid[1].price THEN bid
    ELSE agg_bid

\* the match on agg_bid of aggregated_bbo
merge_bid(agg_bid, bid) ==
    IF bid = None THEN agg_bid
    ELSE IF agg_bid = None THEN bid
    ELSE IF bid[1].price > agg_bid[1].price THEN bid
    ELSE IF bid[1].price = agg_bid[1].price
         THEN Some([price |-> agg_bid[1].price,
                    size |-> agg_bid[1].size + bid[1].size,
                    count |-> agg_bid[1].count + bid[1].count])
    ELSE agg_bid

\* the match on agg_ask of aggregated_bbo
merge_ask(agg_ask, ask) ==
    IF ask = None THEN agg_ask
    ELSE IF agg_ask = None THEN ask
    ELSE IF ask[1].price < agg_ask[1].price THEN ask
    ELSE IF ask[1].price = agg_ask[1].price
         THEN Some([price |-> agg_ask[1].price,
                    size |-> agg_ask[1].size + ask[1].size,
                    count |-> agg_ask[1].count + ask[1].count])
    ELSE agg_ask

\* the for loop of aggregated_bbo over the publisher sequence, in its order
RECURSIVE aggregate(_)
aggregate(pub_books) ==
    IF pub_books = <<>> THEN <<None, None>>
    ELSE LET agg == aggregate(SubSeq(pub_books, 1, Len(pub_books) - 1))
             b == bbo(pub_books[Len(pub_books)].book)
         IN <<merge_bid(agg[1], b[1]), merge_ask(agg[2], b[2])>>

\* Market::aggregated_bbo
aggregated_bbo(M, instrument_id) ==
    IF books_by_pub(M, instrument_id) = None THEN <<None, None>>
    ELSE aggregate(books_by_pub(M, instrument_id)[1])

\* The messages the Market is driven with: the quotes of scenario S7, a
\* better bid, an ask, a TOB bid, a pre-snapshot Cancel and a Clear.
S7_Bid3 == Msg("Add", 1, "Bid", 100, 3, FALSE)
S7_Bid4 == Msg("Add", 2, "Bid", 100, 4, FALSE)
S_TobBid == Msg("Add", 0, "Bid", 100, 6, TRUE)
S_Clear == Msg("Clear", 0, "None", 0, 0, FALSE)
MarketBookMsgs == {S7_Bid3, S7_Bid4, S_Add3, S_Add2Ask, S_TobBid, S_Cancel42, S_Clear}
MarketMsgs ==
    {MarketMsg(i, p, m) : i \in Instruments, p \in PublisherIds, m \in MarketBookMsgs}

\* Market.apply(m) on the Market of the current state
MarketStep(m) ==
    /\ hist' = Append(hist, m)
    /\ books' = market_apply(books, m).market
    /\ UNCHANGED <<bookVars, steps, repair, loaderVars, sseVars>>

MarketApply ==
    /\ Len(hist) < MaxMarketLen
    /\ \E m \in MarketMsgs : MarketStep(m)

NextMarket == MarketApply

SpecMarket == Init /\ [][NextMarket]_vars

(***************************************************************************)
(* load_market_snapshots: hist is mbo_messages, books is the local market. *)
(***************************************************************************)
BATCH_SIZE == 1000

\* the locals of load_market_snapshots as one value
Loader ==
    [mbo_messages |-> hist, market |-> books, storage |-> storage,
     snapshots |-> snapshots, batch |-> batch, sink |-> sink, status |-> status]

\* an MboMsg with the header fields and the is_last flag the loader reads
LoaderMsg(instrument_id, publisher_id, m, is_last) ==
    [instrument_id |-> instrument_id, publisher_id |-> publisher_id, mbo |-> m,
     is_last |-> is_last]

\* what the sink, the symbol map and ts_recv() answer during one record
RecordOutcomes ==
    [insert_ok : BOOLEAN, lookup : {"Ok", "SymbolResolutionError", "TimestampError"}]

\* what the sink answers at the end of input
FinishOutcomes == [insert_ok : BOOLEAN, count_ok : BOOLEAN]

\* faulty variant: the snapshot is taken before the message is applied
MarketSnapshot_stale(before, r, m) ==
    [market |-> before, market_effect |-> r.effect[1], applied_mbo_msg |-> m]

\* MarketSnapshot { market: market.clone(), market_effect, applied_mbo_msg }
MarketSnapshot(before, r, m) ==
    [market |-> r.market, market_effect |-> r.effect[1], applied_mbo_msg |-> m]

\* faulty variant: a message skipped as pre-snapshot ends the replay too
apply_is_fatal_or_skipped(r) == r.res # "Ok" \/ r.effect[1].book_effect = "Skipped"

\* the ? on market.apply(..): an error of Market.apply ends the replay
apply_is_fatal(r) == r.res # "Ok"

\* faulty variant: the flush waits until the batch is over BATCH_SIZE
batch_is_full_late(batch1) == Len(batch1) > BATCH_SIZE

\* if batch.len() >= BATCH_SIZE
batch_is_full(batch1) == Len(batch1) >= BATCH_SIZE

\* the body of the while loop for one decoded record
load_record(L, m, out) ==
    LET L1 == [L EXCEPT !.mbo_messages = Append(@, m)]
        batch1 == IF L.storage THEN Append(L.batch, m) ELSE L.batch
        due == L.storage /\ batch_is_full(batch1)
    IN IF due /\ ~out.insert_ok
       THEN [L1 EXCEPT !.batch = batch1, !.status = "PersistenceError"]
       ELSE LET L2 == IF due
                      THEN [L1 EXCEPT !.batch = <<>>, !.sink = Append(@, batch1)]
                      ELSE [L1 EXCEPT !.batch = batch1]
                r == market_apply(L.market, m)
            IN IF apply_is_fatal(r)
               THEN [L2 EXCEPT !.market = r.market, !.status = r.res]
               ELSE LET L3 == [L2 EXCEPT !.market = r.market,
                                         !.snapshots = Append(@, MarketSnapshot(L.market, r, m))]
                    IN IF m.is_last /\ out.lookup # "Ok"
                       THEN [L3 EXCEPT !.status = out.lookup]
                       ELSE L3

\* the code after the loop: final flush, count, Ok(snapshots)
finish(L, out) ==
    IF ~L.storage THEN [L EXCEPT !.status = "Ok"]
    ELSE IF L.batch # <<>> /\ ~out.insert_ok
         THEN [L EXCEPT !.status = "PersistenceError"]
    ELSE LET L1 == IF L.batch # <<>> THEN [L EXCEPT !.sink = Append(@, L.batch)] ELSE L
         IN IF ~out.count_ok THEN [L1 EXCEPT !.status = "PersistenceError"]
            ELSE [L1 EXCEPT !.status = "Ok"]

\* The records the decoder yields: feeds of up to MaxFeedLen records of
\* LoaderMsgs, and feeds of up to MaxFillerLen Trade records, long enough
\* to fill a batch, in which the record that fills the batch may be any of
\* LoaderMsgs.
Filler == LoaderMsg(1, 1, Msg("Trade", 1, "None", 1, 1, FALSE), FALSE)
LoaderBookMsgs == {S7_Bid3, S_Add2Ask, S_Cancel42, S_Modify8, Filler.mbo}
LoaderMsgs ==
    {LoaderMsg(1, p, m, l) : p \in {0, 1}, m \in LoaderBookMsgs, l \in BOOLEAN}

OnlyFiller(h) == \A k \in 1..Len(h) : h[k] = Filler

NextRecords(h) ==
    IF Len(h) < MaxFeedLen THEN LoaderMsgs
    ELSE IF Len(h) = BATCH_SIZE - 1 /\ OnlyFiller(h) THEN LoaderMsgs
    ELSE IF Len(h) < MaxFillerLen /\ OnlyFiller(h) THEN {Filler}
    ELSE {}

FeedMayEnd(h) == Len(h) <= MaxFeedLen \/ Len(h) >= BATCH_SIZE - 1

Becomes(L) ==
    /\ hist' = L.mbo_messages
    /\ books' = L.market
    /\ storage' = L.storage
    /\ snapshots' = L.snapshots
    /\ batch' = L.batch
    /\ sink' = L.sink
    /\ status' = L.status
    /\ UNCHANGED <<bookVars, steps, repair, sseVars>>

\* decode_record() returns Ok(Some(record)): one turn of the loop
LoaderRecord ==
    /\ status = "Running"
    /\ \E m \in NextRecords(hist) : \E out \in RecordOutcomes :
           Becomes(load_record(Loader, m, out))

\* decode_record() returns Err
LoaderDecodeError ==
    /\ status = "Running"
    /\ Becomes([Loader EXCEPT !.status = "DecodeError"])

\* decode_record() returns Ok(None): end of input
LoaderEnd ==
    /\ status = "Running"
    /\ FeedMayEnd(hist)
    /\ \E out \in FinishOutcomes : Becomes(finish(Loader, out))

InitLoader == Fresh /\ storage \in BOOLEAN /\ hash_order = "asc" /\ NoStreams

NextLoader == LoaderRecord \/ LoaderDecodeError \/ LoaderEnd

SpecLoader == InitLoader /\ [][NextLoader]_vars

(***************************************************************************)
(* JSON of a snapshot: serde writes a HashMap in its iteration order and a *)
(* BTreeMap in key order.                                                  *)
(***************************************************************************)
HashOrders == {"asc", "desc"}

\* the keys of a map in one iteration order
RECURSIVE KeysInOrder(_, _)
KeysInOrder(S, ord) ==
    IF S = {} THEN <<>>
    ELSE LET k == IF ord = "asc" THEN SetMin(S) ELSE SetMax(S)
         IN <<k>> \o KeysInOrder(S \ {k}, ord)

\* the entries of a map as serde_json writes them, given the iteration order
json_map(f, ord) ==
    LET keys == KeysInOrder(DOMAIN f, ord)
    IN [i \in 1..Len(keys) |-> <<keys[i], f[keys[i]]>>]

\* #[derive(Serialize)] of Book
json_book(B, ord) ==
    [orders_by_id |-> json_map(B.orders_by_id, ord),
     offers |-> json_map(B.offers, "asc"),
     bids |-> json_map(B.bids, "asc")]

\* #[derive(Serialize)] of Market
json_market(M, ord) ==
    json_map([i \in DOMAIN M |->
                 [k \in 1..Len(M[i]) |->
                     <<M[i][k].publisher, json_book(M[i][k].book, ord)>>]],
             ord)

\* serde_json::to_string(&snapshot)
json_snapshot(snapshot, ord) ==
    [market |-> json_market(snapshot.market, ord),
     market_effect |-> snapshot.market_effect,
     applied_mbo_msg |-> snapshot.applied_mbo_msg]

(***************************************************************************)
(* The SSE stream handler of api/mbo/stream/json, one entry of conns per   *)
(* request.                                                                *)
(***************************************************************************)
Conns == 1..MaxConns

\* the messages the published snapshots come from: one Add per message, the
\* instruments taken in turn
SseFeedMsg(i) ==
    MarketMsg(((i - 1) % MaxInstrument) + 1, 1, Msg("Add", i, "Bid", 100, i, FALSE))

\* the snapshots the loader returns for a feed of n such messages
RECURSIVE LoadedSnapshots(_)
LoadedSnapshots(n) ==
    IF n = 0 THEN <<>>
    ELSE LET before == LoadedSnapshots(n - 1)
             M == IF n = 1 THEN NewMarket ELSE before[n - 1].market
         IN Append(before, MarketSnapshot(M, market_apply(M, SseFeedMsg(n)), SseFeedMsg(n)))

\* faulty variant: the event carries the message and effect of the snapshot
\* with an empty Market
sse_data_no_market(snapshot, ord) ==
    [data |-> json_snapshot([snapshot EXCEPT !.market = NewMarket], ord)]

\* Event::default().data(json)
sse_data(snapshot, ord) == [data |-> json_snapshot(snapshot, ord)]

\* Event::default().comment("stream_end")
stream_end == [comment |-> "stream_end"]

\* faulty variant: the cleanup task decrements only after a send
rx_resolved_by_send_only(tx) == tx = "sent"

\* rx.await returns when the sender has sent or has been dropped
rx_resolved(tx) == tx \in {"sent", "dropped"}

\* a request not yet received
NewConn ==
    [pc |-> "idle", market_snapshots |-> <<>>, pos |-> 0, received |-> <<>>,
     tx |-> "none", task |-> "none", incs |-> 0, decs |-> 0]

\* state.read().await, the two inc() and the clone of the snapshots
SseConnect(c) ==
    /\ conns[c].pc = "idle"
    /\ readers' = readers \cup {c}
    /\ active_connections' = active_connections + 1
    /\ conns' = [conns EXCEPT ![c].pc = "locked",
                              ![c].market_snapshots = snapshots,
                              ![c].incs = @ + 1]
    /\ UNCHANGED <<bookVars, steps, repair, hist, books, loaderVars, hash_order>>

\* drop(state_read), the oneshot channel, tokio::spawn of the cleanup task,
\* and the return of the Sse response
SseRelease(c) ==
    /\ conns[c].pc = "locked"
    /\ readers' = readers \ {c}
    /\ conns' = [conns EXCEPT ![c].pc = "streaming", ![c].tx = "held",
                              ![c].task = "waiting"]
    /\ UNCHANGED <<bookVars, steps, repair, hist, books, loaderVars, hash_order,
                   active_connections>>

\* the consumer polls the stream and gets the next snapshot
SseNext(c) ==
    /\ conns[c].pc = "streaming"
    /\ conns[c].pos < Len(conns[c].market_snapshots)
    /\ conns' = [conns EXCEPT
                    ![c].pos = @ + 1,
                    ![c].received =
                        Append(@, sse_data(conns[c].market_snapshots[conns[c].pos + 1],
                                           hash_order))]
    /\ UNCHANGED <<bookVars, steps, repair, hist, books, loaderVars, hash_order,
                   active_connections, readers>>

\* the consumer polls past the last snapshot: tx.send(()) and stream_end
SseEnd(c) ==
    /\ conns[c].pc = "streaming"
    /\ conns[c].pos = Len(conns[c].market_snapshots)
    /\ conns' = [conns EXCEPT ![c].pc = "ended", ![c].tx = "sent",
                              ![c].received = Append(@, stream_end)]
    /\ UNCHANGED <<bookVars, steps, repair, hist, books, loaderVars, hash_order,
                   active_connections, readers>>

\* the consumer goes away before the end: the stream, and tx in it, is dropped
SseDrop(c) ==
    /\ conns[c].pc = "streaming"
    /\ conns' = [conns EXCEPT ![c].pc = "dropped", ![c].tx = "dropped"]
    /\ UNCHANGED <<bookVars, steps, repair, hist, books, loaderVars, hash_order,
                   active_connections, readers>>

\* the spawned task: rx.await, then active_connections.dec()
SseCleanup(c) ==
    /\ conns[c].task = "waiting"
    /\ rx_resolved(conns[c].tx)
    /\ active_connections' = active_connections - 1
    /\ conns' = [conns EXCEPT ![c].task = "done", ![c].decs = @ + 1]
    /\ UNCHANGED <<bookVars, steps, repair, hist, books, loaderVars, hash_order, readers>>

\* the state published after the load: the snapshots of a feed, no writer
InitSse ==
    /\ orders_by_id = EmptyMap /\ offers = EmptyMap /\ bids = EmptyMap
    /\ steps = 0 /\ hist = <<>> /\ books = EmptyMap
    /\ storage = TRUE /\ batch = <<>> /\ sink = <<>> /\ status = "Ok"
    /\ repair = "idle"
    /\ snapshots \in {LoadedSnapshots(n) : n \in 0..MaxSnapshots}
    /\ hash_order \in HashOrders
    /\ conns = [c \in Conns |-> NewConn]
    /\ active_connections = 0
    /\ readers = {}

Connect == \E c \in Conns : SseConnect(c)
Release == \E c \in Conns : SseRelease(c)
NextEvent == \E c \in Conns : SseNext(c)
EndOfStream == \E c \in Conns : SseEnd(c)
Drop == \E c \in Conns : SseDrop(c)
Cleanup == \E c \in Conns : SseCleanup(c)

NextSse == Connect \/ Release \/ NextEvent \/ EndOfStream \/ Drop \/ Cleanup

\* tokio runs every spawned task: a cleanup task whose rx has resolved
\* gets to decrement
SpecSse ==
    InitSse /\ [][NextSse]_vars /\ \A c \in Conns : WF_vars(SseCleanup(c))

(***************************************************************************)
(* Properties of the Book, one per claim.                                  *)
(***************************************************************************)
LevelHasId(level, id) == \E i \in 1..Len(level) : level[i].order_id = id

\* the (side, price) keys of the Levels of B that hold an order with this id
LevelsWithId(B, id) ==
    {<<"Bid", p>> : p \in {x \in DOMAIN B.bids : LevelHasId(B.bids[x], id)}}
    \cup {<<"Ask", p>> : p \in {x \in DOMAIN B.offers : LevelHasId(B.offers[x], id)}}

AllLevels(B) ==
    {B.bids[p] : p \in DOMAIN B.bids} \cup {B.offers[p] : p \in DOMAIN B.offers}

\* C1: whenever both sides are non-empty, the highest bid price is strictly
\* below the lowest ask price.
C1_NonCrossed ==
    (DOMAIN bids # {} /\ DOMAIN offers # {})
        => SetMax(DOMAIN bids) < SetMin(DOMAIN offers)

\* C2: every entry id -> (side, price) of orders_by_id names a Level that
\* holds an order with that id, and no other Level holds that id.
C2_IdIndexSound ==
    \A id \in DOMAIN orders_by_id :
        LevelsWithId(Book, id) = {<<orders_by_id[id].side, orders_by_id[id].price>>}

\* C3: every non-TOB order stored in a Level has an entry in orders_by_id.
C3_RestingOrdersIndexed ==
    \A level \in AllLevels(Book) :
        \A i \in 1..Len(level) :
            ~level[i].tob => level[i].order_id \in DOMAIN orders_by_id

\* C4: every Level present in bids or offers holds at least one order.
C4_LevelsNonEmpty == \A level \in AllLevels(Book) : Len(level) >= 1

\* where orders_by_id places an order: its Level and its 1-based position
\* in it (0 when the Level is missing or does not hold the id)
IndexedLevel(B, id) ==
    LET e == B.orders_by_id[id]
    IN IF side_levels_ok(e.side) /\ e.price \in DOMAIN side_levels(B, e.side)
       THEN side_levels(B, e.side)[e.price]
       ELSE <<>>
IndexedPos(B, id) == find_order(IndexedLevel(B, id), id)

\* a Modify of a known, resting order that keeps its indexed side and price
SamePlaceModify(B, m) ==
    /\ m.order_id \in DOMAIN B.orders_by_id
    /\ B.orders_by_id[m.order_id] = [side |-> m.side, price |-> m.price]
    /\ IndexedPos(B, m.order_id) > 0

\* the book before the last message of the history, and that message
RECURSIVE BookAfter(_, _)
BookAfter(B, h) ==
    IF h = <<>> THEN B ELSE BookAfter(apply(B, Head(h)).book, Tail(h))
PrevBook == BookAfter(NewBook, SubSeq(hist, 1, Len(hist) - 1))
LastMsg == hist[Len(hist)]

\* C5: a Modify at the unchanged price with a larger size moves the order to
\* the tail of its Level; after scenario S6 queue_pos(2) = 0 and
\* queue_pos(1) = 5.
C5_LargerModifyRequeues ==
    /\ (/\ hist # <<>>
        /\ LastMsg.action = "Modify"
        /\ SamePlaceModify(PrevBook, LastMsg)
        /\ LastMsg.size > IndexedLevel(PrevBook, LastMsg.order_id)
                              [IndexedPos(PrevBook, LastMsg.order_id)].size)
       => IndexedPos(Book, LastMsg.order_id) = Len(IndexedLevel(Book, LastMsg.order_id))
    /\ hist = S6 => /\ queue_pos(Book, 2) = Some(0)
                    /\ queue_pos(Book, 1) = Some(5)

\* C6: a Modify of a known order that keeps side and price and does not
\* raise the size is applied in place: the Level keeps its order sequence,
\* only that order's size changes, its queue_pos is unchanged and the
\* queue_pos of every order behind it drops by the size reduction.
C6_InPlaceModify ==
    \A m \in ModifyMsgs :
        (/\ SamePlaceModify(Book, m)
         /\ m.size <= IndexedLevel(Book, m.order_id)[IndexedPos(Book, m.order_id)].size)
        => LET id == m.order_id
               level == IndexedLevel(Book, id)
               idx == IndexedPos(Book, id)
               cut == level[idx].size - m.size
               r == apply(Book, m)
           IN /\ r.res = "Ok"
              /\ r.book.orders_by_id = orders_by_id
              /\ IndexedLevel(r.book, id) = [level EXCEPT ![idx].size = m.size]
              /\ queue_pos(r.book, id) = queue_pos(Book, id)
              /\ \A k \in DOMAIN orders_by_id :
                    (/\ orders_by_id[k] = orders_by_id[id]
                     /\ IndexedPos(Book, k) > idx)
                    => queue_pos(r.book, k) = Some(queue_pos(Book, k)[1] - cut)
              /\ \A k \in DOMAIN orders_by_id :
                    orders_by_id[k] # orders_by_id[id]
                    => queue_pos(r.book, k) = queue_pos(Book, k)

\* C6 witness: a known order with another order queued behind it, and a
\* Modify that shrinks it in place
C6_Witness ==
    \E m \in ModifyMsgs :
        /\ SamePlaceModify(Book, m)
        /\ m.size < IndexedLevel(Book, m.order_id)[IndexedPos(Book, m.order_id)].size
        /\ \E k \in DOMAIN orders_by_id :
              /\ orders_by_id[k] = orders_by_id[m.order_id]
              /\ IndexedPos(Book, k) > IndexedPos(Book, m.order_id)
              /\ queue_pos(apply(Book, m).book, k) # queue_pos(Book, k)

\* C7: after scenario S5 the Levels bid 102 and ask 101 are gone, bbo() is
\* (None, None), order 1 is present and orders 2 and 3 are absent.
C7_ScenarioS5 ==
    hist = S5 =>
        /\ 102 \notin DOMAIN bids
        /\ 101 \notin DOMAIN offers
        /\ bbo(Book) = <<None, None>>
        /\ order(Book, 1) # None
        /\ order(Book, 2) = None
        /\ order(Book, 3) = None

\* C7 amended: after scenario S5 the Levels bid 102 and ask 101 are gone,
\* the ask side is empty and the best bid is the Level of order 1,
\* (100, 10, 1); order 1 is present and orders 2 and 3 are absent.
C7_ScenarioS5Amended ==
    hist = S5 =>
        /\ 102 \notin DOMAIN bids
        /\ 101 \notin DOMAIN offers
        /\ bbo(Book) = <<Some([price |-> 100, size |-> 10, count |-> 1]), None>>
        /\ order(Book, 1) # None
        /\ order(Book, 2) = None
        /\ order(Book, 3) = None

\* C7 witness: scenario S5 has been replayed
C7_Witness == hist = S5

\* C8: an Add, Cancel or Modify whose side is None fails with InvalidSide.
C8_SideNoneFails ==
    \A m \in AddMsgs \cup CancelMsgs \cup ModifyMsgs :
        m.side = "None" => apply(Book, m).res = "InvalidSide"

\* a Cancel whose (side, price) Level is missing or does not hold the id
PreSnapshotCancel(B, m) ==
    \/ m.side \notin {"Bid", "Ask"}
    \/ m.price \notin DOMAIN side_levels(B, m.side)
    \/ ~LevelHasId(side_levels(B, m.side)[m.price], m.order_id)

\* C9: a Cancel whose Level is missing or does not hold the id, and a Modify
\* whose id is not in orders_by_id, are skipped without error and leave
\* bids, offers and orders_by_id as they were.
C9_PreSnapshotSkipped ==
    /\ \A m \in CancelMsgs :
          PreSnapshotCancel(Book, m)
          => apply(Book, m) = [book |-> Book, res |-> "Skipped"]
    /\ \A m \in ModifyMsgs :
          m.order_id \notin DOMAIN orders_by_id
          => apply(Book, m) = [book |-> Book, res |-> "Skipped"]

\* C9 witness: a book with resting orders that receives a Cancel for an id
\* its Level does not hold and a Modify for an id it does not know
C9_Witness ==
    /\ \E m \in CancelMsgs :
          /\ m.side = "Bid" /\ m.price \in DOMAIN bids
          /\ ~LevelHasId(bids[m.price], m.order_id)
          /\ apply(Book, m).res = "Skipped"
    /\ \E m \in ModifyMsgs :
          /\ m.order_id \notin DOMAIN orders_by_id
          /\ m.side = "Ask" /\ m.price \in DOMAIN offers
          /\ apply(Book, m).res = "Skipped"

\* C10 as stated: a non-TOB Add with a known id fails with DuplicateOrder,
\* one with UNDEF_PRICE fails with InvalidPrice, and neither appends an order.
C10_RejectedAdd ==
    \A m \in AddMsgs :
        ~m.tob =>
            LET r == apply(Book, m)
            IN /\ m.order_id \in DOMAIN orders_by_id
                    => r.res = "DuplicateOrder" /\ r.book.bids = bids
                       /\ r.book.offers = offers
               /\ m.price = UNDEF_PRICE
                    => r.res = "InvalidPrice" /\ r.book.bids = bids
                       /\ r.book.offers = offers

\* C10 amended: the price is checked first. A non-TOB Add with UNDEF_PRICE
\* fails with InvalidPrice; one with another price and a known id fails with
\* DuplicateOrder; neither appends an order to a Level.
C10_RejectedAddAmended ==
    \A m \in AddMsgs :
        ~m.tob =>
            LET r == apply(Book, m)
            IN /\ (m.price # UNDEF_PRICE /\ m.order_id \in DOMAIN orders_by_id)
                    => r.res = "DuplicateOrder" /\ r.book.bids = bids
                       /\ r.book.offers = offers
               /\ m.price = UNDEF_PRICE
                    => r.res = "InvalidPrice" /\ r.book.bids = bids
                       /\ r.book.offers = offers

\* C10 witness: a book with a resting, indexed order, for which both
\* rejections occur
C10_Witness ==
    /\ \E id \in DOMAIN orders_by_id : IndexedPos(Book, id) > 0
    /\ \E m \in AddMsgs : ~m.tob /\ apply(Book, m).res = "DuplicateOrder"
    /\ \E m \in AddMsgs : ~m.tob /\ apply(Book, m).res = "InvalidPrice"

\* the Level at (side, price) as an Option: None when the side has no such key
LevelAt(B, side, price) ==
    IF side_levels_ok(side) /\ price \in DOMAIN side_levels(B, side)
    THEN Some(side_levels(B, side)[price])
    ELSE None

\* C11: a Cancel that finds its order but carries a larger size than the
\* order has fails with CancelExceedsSize and leaves the book as it was.
C11_CancelExceedsSize ==
    \A m \in CancelMsgs :
        (/\ ~PreSnapshotCancel(Book, m)
         /\ LET level == side_levels(Book, m.side)[m.price]
            IN m.size > level[find_order(level, m.order_id)].size)
        => apply(Book, m) = [book |-> Book, res |-> "CancelExceedsSize"]

\* C11 witness: an order of positive size rests behind another order and
\* a Cancel asks for more than it has
C11_Witness ==
    \E m \in CancelMsgs :
        /\ ~PreSnapshotCancel(Book, m)
        /\ LET level == side_levels(Book, m.side)[m.price]
               idx == find_order(level, m.order_id)
           IN idx > 1 /\ level[idx].size > 0 /\ m.size > level[idx].size
        /\ apply(Book, m).res = "CancelExceedsSize"

\* the Cancel that mirrors an Add
CancelOf(m) == Msg("Cancel", m.order_id, m.side, m.price, m.size, FALSE)

\* C12: a successful non-TOB Add followed at once by the Cancel with the same
\* id, side, price and size restores the Level at (side, price) and the
\* orders_by_id entry of the id to what they were before the Add.
C12_AddCancelRoundTrip ==
    \A m \in AddMsgs :
        (~m.tob /\ apply(Book, m).res = "Ok")
        => LET B1 == apply(Book, m).book
               B2 == apply(B1, CancelOf(m)).book
           IN /\ LevelAt(B2, m.side, m.price) = LevelAt(Book, m.side, m.price)
              /\ (m.order_id \in DOMAIN B2.orders_by_id)
                     = (m.order_id \in DOMAIN orders_by_id)
              /\ m.order_id \in DOMAIN orders_by_id
                     => B2.orders_by_id[m.order_id] = orders_by_id[m.order_id]

\* C13: Clear empties the three indexes, a second Clear changes nothing, and
\* any Add after a Clear gives what it gives on a fresh Book.
C13_ClearLaws ==
    \A c \in ClearMsgs :
        LET r == apply(Book, c)
        IN /\ r.res = "Ok"
           /\ DOMAIN r.book.bids = {}
           /\ DOMAIN r.book.offers = {}
           /\ DOMAIN r.book.orders_by_id = {}
           /\ apply(r.book, c) = r
           /\ \A a \in AddMsgs : apply(r.book, a) = apply(NewBook, a)

\* C13 witness: a book with orders on both sides and ids in the index, which
\* Clear empties
C13_Witness ==
    /\ DOMAIN bids # {} /\ DOMAIN offers # {} /\ DOMAIN orders_by_id # {}
    /\ \E c \in ClearMsgs : apply(Book, c).book # Book

\* C14: queue_pos(id) is None for an id that is not in orders_by_id, and a
\* value it returns is the total size of the orders ahead of the order with
\* that id in the Level the index names, which holds that order.
C14_QueuePos ==
    \A id \in Ids :
        /\ id \notin DOMAIN orders_by_id => queue_pos(Book, id) = None
        /\ (id \in DOMAIN orders_by_id /\ queue_pos(Book, id) # None)
           => /\ IndexedPos(Book, id) > 0
              /\ queue_pos(Book, id) =
                     Some(SumSizes(SubSeq(IndexedLevel(Book, id), 1,
                                          IndexedPos(Book, id) - 1)))

\* C15: every order stored in the Level keyed by p in bids has price p and
\* side Bid, and every order in the Level keyed by p in offers has price p
\* and side Ask.
C15_LevelKeysMatchOrders ==
    /\ \A p \in DOMAIN bids : \A i \in 1..Len(bids[p]) :
          bids[p][i].price = p /\ bids[p][i].side = "Bid"
    /\ \A p \in DOMAIN offers : \A i \in 1..Len(offers[p]) :
          offers[p][i].price = p /\ offers[p][i].side = "Ask"

\* C15 witness: both sides hold orders, one Level holds a TOB order and one
\* Level holds two orders
C15_Witness ==
    /\ DOMAIN bids # {} /\ DOMAIN offers # {}
    /\ \E level \in AllLevels(Book) : \E i \in 1..Len(level) : level[i].tob
    /\ \E level \in AllLevels(Book) : Len(level) >= 2

(***************************************************************************)
(* Properties of the Market.                                               *)
(***************************************************************************)
RECURSIVE SumOver(_, _)
SumOver(S, f) ==
    IF S = {} THEN 0
    ELSE LET x == CHOOSE y \in S : TRUE IN f[x] + SumOver(S \ {x}, f)

\* per-publisher best levels of one side (1 = bid, 2 = ask), by position
BestOf(pub_books, k) == [i \in 1..Len(pub_books) |-> bbo(pub_books[i].book)[k]]

\* the merged best level of one side, computed from the set of books: the
\* best price, and the sums over the books whose best level is at that price
MergedBest(pub_books, k) ==
    LET best == BestOf(pub_books, k)
        has == {i \in DOMAIN best : best[i] # None}
        prices == {best[i][1].price : i \in has}
        px == IF k = 1 THEN SetMax(prices) ELSE SetMin(prices)
        at == {i \in has : best[i][1].price = px}
    IN IF has = {} THEN None
       ELSE Some([price |-> px,
                  size |-> SumOver(at, [i \in at |-> best[i][1].size]),
                  count |-> SumOver(at, [i \in at |-> best[i][1].count])])

\* every reordering of a publisher sequence
Reorderings(pub_books) ==
    LET n == Len(pub_books)
        perms == {f \in [1..n -> 1..n] : \A a, b \in 1..n : f[a] = f[b] => a = b}
    IN {[i \in 1..n |-> pub_books[f[i]]] : f \in perms}

PublisherSeq(M, i) ==
    IF i \in DOMAIN M THEN [k \in 1..Len(M[i]) |-> M[i][k].publisher] ELSE <<>>

\* the publishers with a message for instrument i in h, in first-message order
RECURSIVE FirstSeen(_, _)
FirstSeen(h, i) ==
    IF h = <<>> THEN <<>>
    ELSE LET before == FirstSeen(SubSeq(h, 1, Len(h) - 1), i)
             m == h[Len(h)]
         IN IF /\ m.instrument_id = i
               /\ m.publisher_id \in Publishers
               /\ \A k \in 1..Len(before) : before[k] # m.publisher_id
            THEN Append(before, m.publisher_id)
            ELSE before

\* C17: each instrument's publisher sequence holds every publisher at most
\* once, in the order of the publishers' first messages for the instrument;
\* no later message reorders, duplicates or removes an entry.
C17_PublisherOrder ==
    \A i \in Instruments :
        /\ PublisherSeq(books, i) = FirstSeen(hist, i)
        /\ \A a, b \in 1..Len(PublisherSeq(books, i)) :
               PublisherSeq(books, i)[a] = PublisherSeq(books, i)[b] => a = b

\* C17 witness: for one instrument publisher 2 came first, then publisher 1,
\* then publisher 2 again
C17_Witness ==
    /\ Len(hist) = 3
    /\ \A k \in 1..3 : hist[k].instrument_id = 1
    /\ hist[1].publisher_id = 2 /\ hist[2].publisher_id = 1 /\ hist[3].publisher_id = 2
    /\ PublisherSeq(books, 1) = <<2, 1>>

\* the number of Books a Market holds for (instrument, publisher)
BookCount(M, i, p) ==
    IF i \in DOMAIN M THEN Cardinality({k \in 1..Len(M[i]) : M[i][k].publisher = p})
    ELSE 0

\* C18: Market.apply creates a Book for (instrument, publisher) exactly when
\* none exists yet, a returned MarketEffect has publisher_created =
\* Some(publisher) exactly then and None otherwise, and no Book that exists
\* is removed by any message (a Clear empties it and keeps the entry).
C18_BookLifecycle ==
    \A m \in MarketMsgs :
        LET r == market_apply(books, m)
            i == m.instrument_id
            p == m.publisher_id
            existed == BookCount(books, i, p) > 0
        IN /\ \A i2 \in Instruments : \A p2 \in Publishers :
                  BookCount(r.market, i2, p2) =
                      IF i2 = i /\ p2 = p /\ ~existed
                      THEN 1 ELSE BookCount(books, i2, p2)
           /\ r.effect # None =>
                  r.effect[1].publisher_created = IF existed THEN None ELSE Some(p)
           /\ (m.mbo.action = "Clear" /\ existed) =>
                  /\ PublisherSeq(r.market, i) = PublisherSeq(books, i)
                  /\ r.market[i][find_publisher(books[i], p)].book = NewBook

\* C18 witness: one message would create a second Book of an instrument, and
\* a Clear for a publisher whose Book holds orders keeps that Book's entry
C18_Witness ==
    /\ \E m \in MarketMsgs :
          /\ m.instrument_id \in DOMAIN books
          /\ BookCount(books, m.instrument_id, m.publisher_id) = 0
          /\ market_apply(books, m).effect =
                 Some([publisher_created |-> Some(m.publisher_id), book_effect |-> "Ok"])
    /\ \E m \in MarketMsgs :
          /\ m.mbo.action = "Clear"
          /\ BookCount(books, m.instrument_id, m.publisher_id) = 1
          /\ books[m.instrument_id][find_publisher(books[m.instrument_id],
                                                   m.publisher_id)].book # NewBook
          /\ market_apply(books, m).effect =
                 Some([publisher_created |-> None, book_effect |-> "Ok"])

(***************************************************************************)
(* Properties of the replay loader.                                        *)
(***************************************************************************)
\* Market.apply over a whole message sequence h starting from Market M: the
\* result of every call, in order (the sequence is replayed half by half)
RECURSIVE ReplayFrom(_, _)
ReplayFrom(M, h) ==
    IF h = <<>> THEN <<>>
    ELSE IF Len(h) = 1 THEN <<market_apply(M, h[1])>>
    ELSE LET half == Len(h) \div 2
             left == ReplayFrom(M, SubSeq(h, 1, half))
             right == ReplayFrom(left[half].market, SubSeq(h, half + 1, Len(h)))
         IN left \o right

Replay(h) == ReplayFrom(NewMarket, h)

\* C19: a successful replay returns one snapshot per input message, in input
\* order, and snapshot i holds the Market after messages 0..i, message i
\* and the effect of message i.
C19_SnapshotPerMessage ==
    status = "Ok" =>
        LET replayed == Replay(hist)
        IN /\ Len(snapshots) = Len(hist)
           /\ \A i \in 1..Len(hist) :
                  /\ snapshots[i].market = replayed[i].market
                  /\ snapshots[i].market_effect = replayed[i].effect[1]
                  /\ snapshots[i].applied_mbo_msg = hist[i]

\* C19 witness: a successful replay of three messages that each change the
\* Market
C19_Witness ==
    /\ status = "Ok"
    /\ Len(snapshots) = 3
    /\ snapshots[1].market # NewMarket
    /\ snapshots[2].market # snapshots[1].market
    /\ snapshots[3].market # snapshots[2].market

LoaderErrors ==
    Errors \cup {"InvalidPublisher", "DecodeError", "PersistenceError",
                 "SymbolResolutionError", "TimestampError"}

\* C20: a decode error, a Market.apply error and a sink error each end the
\* replay at that message with the error and without a snapshot for it;
\* a message whose Cancel or Modify is skipped as pre-snapshot gets its
\* snapshot and the replay goes on.
C20_ErrorPolicy ==
    /\ status \in LoaderErrors => ~ENABLED NextLoader
    /\ status = "Running" =>
         /\ \A m \in NextRecords(hist) : \A out \in RecordOutcomes :
              LET L1 == load_record(Loader, m, out)
                  r == market_apply(books, m)
                  sink_fails == /\ storage
                                /\ Len(batch) + 1 >= BATCH_SIZE
                                /\ ~out.insert_ok
              IN /\ sink_fails =>
                        /\ L1.status = "PersistenceError"
                        /\ L1.snapshots = snapshots
                 /\ (~sink_fails /\ r.res # "Ok") =>
                        /\ L1.status = r.res
                        /\ L1.status \in LoaderErrors
                        /\ L1.snapshots = snapshots
                 /\ (/\ ~sink_fails
                     /\ r.res = "Ok"
                     /\ r.effect[1].book_effect = "Skipped"
                     /\ ~(m.is_last /\ out.lookup # "Ok")) =>
                        /\ L1.status = "Running"
                        /\ Len(L1.snapshots) = Len(snapshots) + 1
                        /\ L1.snapshots[Len(L1.snapshots)].applied_mbo_msg = m
         /\ \A out \in FinishOutcomes :
              (storage /\ batch # <<>> /\ ~out.insert_ok) =>
                  finish(Loader, out).status = "PersistenceError"

\* C20 witness: the first message was a pre-snapshot Cancel and got its
\* snapshot, the second was applied, and the third failed in Market.apply
C20_Witness ==
    /\ Len(hist) = 3
    /\ hist[1].mbo = S_Cancel42
    /\ Len(snapshots) = 2
    /\ snapshots[1].market_effect.book_effect = "Skipped"
    /\ status = "DuplicateOrder"

\* the records of a sequence of batches, in order
RECURSIVE Flatten(_)
Flatten(batches) ==
    IF batches = <<>> THEN <<>>
    ELSE Flatten(SubSeq(batches, 1, Len(batches) - 1)) \o batches[Len(batches)]

\* C21: with a sink, a replay that ends Ok has handed the sink every input
\* message once and in input order, in calls of exactly BATCH_SIZE records
\* followed by at most one last call with the non-empty remainder; during
\* the replay the batch holds only the records not yet flushed and never
\* more than BATCH_SIZE.
C21_BatchedPersistence ==
    /\ Len(batch) <= BATCH_SIZE
    /\ ~storage => sink = <<>> /\ batch = <<>>
    /\ (storage /\ status = "Running") =>
          /\ Len(batch) < BATCH_SIZE
          /\ Flatten(sink) \o batch = hist
          /\ \A k \in 1..Len(sink) : Len(sink[k]) = BATCH_SIZE
    /\ (storage /\ status = "Ok") =>
          /\ Flatten(sink) = hist
          /\ \A k \in 1..(Len(sink) - 1) : Len(sink[k]) = BATCH_SIZE
          /\ sink # <<>> => Len(sink[Len(sink)]) \in 1..BATCH_SIZE

\* C21 witness: a replay of BATCH_SIZE + 1 records ended Ok after one full
\* batch and a last call with the one remaining record
C21_Witness ==
    /\ storage /\ status = "Ok"
    /\ Len(hist) = BATCH_SIZE + 1
    /\ Len(sink) = 2
    /\ Len(sink[1]) = BATCH_SIZE
    /\ Len(sink[2]) = 1

(***************************************************************************)
(* Properties of the SSE stream.                                           *)
(***************************************************************************)
RECURSIVE SumConns(_, _)
SumConns(S, f) ==
    IF S = {} THEN 0
    ELSE LET c == CHOOSE x \in S : TRUE IN f[c] + SumConns(S \ {c}, f)

\* every connection of the run has come and gone
AllEnded == \A c \in Conns : conns[c].pc \in {"ended", "dropped"}

GaugeAccounts ==
    /\ active_connections >= 0
    /\ active_connections = SumConns(Conns, [c \in Conns |-> conns[c].incs - conns[c].decs])
    /\ \A c \in Conns :
          /\ conns[c].incs = (IF conns[c].pc = "idle" THEN 0 ELSE 1)
          /\ conns[c].decs <= conns[c].incs
          /\ conns[c].decs = 1 => conns[c].pc \in {"ended", "dropped"}

\* C22: each stream connection increments active_connections once when it
\* connects and decrements it once, after the stream has run to its end or
\* has been dropped; the gauge is never negative, and once every connection
\* has ended it returns to zero with every connection decremented once.
C22_GaugeBalanced ==
    /\ []GaugeAccounts
    /\ AllEnded ~> (active_connections = 0 /\ \A c \in Conns : conns[c].decs = 1)

\* C22 witness: one connection ran to its end, another was dropped after its
\* first event, and the gauge is back at zero
C22_Witness ==
    /\ AllEnded
    /\ \E c \in Conns : conns[c].pc = "ended" /\ conns[c].pos > 0
    /\ \E c \in Conns : conns[c].pc = "dropped" /\ conns[c].pos = 1
    /\ \A c \in Conns : conns[c].task = "done"
    /\ active_connections = 0

\* the events of a stream consumed to its end
FullStream ==
    [i \in 1..(Len(snapshots) + 1) |->
        IF i <= Len(snapshots)
        THEN [data |-> json_snapshot(snapshots[i], hash_order)]
        ELSE [comment |-> "stream_end"]]

\* C23: a stream consumed to its end has yielded every snapshot once, in
\* order, and then one stream_end as its last event; the read lock is
\* released before the first event; any two consumers have received the
\* same events up to the shorter of their two streams.
C23_StreamOrder ==
    /\ \A c \in Conns :
          /\ Len(conns[c].received) <= Len(FullStream)
          /\ conns[c].received = SubSeq(FullStream, 1, Len(conns[c].received))
          /\ conns[c].pc = "ended" => conns[c].received = FullStream
          /\ (conns[c].received # <<>> \/ conns[c].pc = "streaming") => c \notin readers
    /\ \A c1, c2 \in Conns :
          \A i \in 1..Len(conns[c1].received) :
              i <= Len(conns[c2].received) =>
                  conns[c1].received[i] = conns[c2].received[i]

\* C23 witness: one consumer has the whole stream of two snapshots and the
\* sentinel while another has only the first event, and a third holds the
\* read lock
C23_Witness ==
    /\ Len(snapshots) = 2
    /\ \E c \in Conns : conns[c].pc = "ended" /\ Len(conns[c].received) = 3
    /\ \E c \in Conns : conns[c].pc = "streaming" /\ Len(conns[c].received) = 1
    /\ readers # {}

(***************************************************************************)
(* Properties of the replay as a whole.                                    *)
(***************************************************************************)
\* what a replay hands out for its snapshots so far: the JSON of every
\* snapshot and the aggregated BBO of the instrument of its message
ReplayOutputs(ord) ==
    [i \in 1..Len(snapshots) |->
        [json |-> json_snapshot(snapshots[i], ord),
         bbo |-> aggregated_bbo(snapshots[i].market,
                                snapshots[i].applied_mbo_msg.instrument_id)]]

\* C24: two replays of the same input give the same Market states, effects
\* and aggregated BBO values, and the same outputs whatever the iteration
\* order of the hash maps (instrument map, orders_by_id) is in each replay.
C24_ReplayDeterminism ==
    /\ Len(snapshots) <= Len(hist)
    /\ \A i \in 1..Len(snapshots) :
          /\ snapshots[i].market = Replay(SubSeq(hist, 1, i))[i].market
          /\ snapshots[i].market_effect = Replay(SubSeq(hist, 1, i))[i].effect[1]
    /\ \A o1, o2 \in HashOrders : ReplayOutputs(o1) = ReplayOutputs(o2)

(***************************************************************************)
(* Book::snapshot: level_count (bid, ask) summaries.  BidAskPair::default() *)
(* of the dbn crate sets both prices to UNDEF_PRICE (i64::MAX) and the     *)
(* sizes and counts to 0; snapshot overwrites the fields of a side only    *)
(* where that side has a level at the index.                               *)
(***************************************************************************)
MaxLevelCount == 4

BidAskPair_default ==
    [bid_px |-> UNDEF_PRICE, bid_sz |-> 0, bid_ct |-> 0,
     ask_px |-> UNDEF_PRICE, ask_sz |-> 0, ask_ct |-> 0]

snapshot(B, level_count) ==
    [k \in 1..level_count |->
        LET i == k - 1
            bid == bid_level(B, i)
            ask == ask_level(B, i)
            with_bid == IF bid # None
                        THEN [BidAskPair_default EXCEPT !.bid_px = bid[1].price,
                                                        !.bid_sz = bid[1].size,
                                                        !.bid_ct = bid[1].count]
                        ELSE BidAskPair_default
        IN IF ask # None
           THEN [with_bid EXCEPT !.ask_px = ask[1].price,
                                 !.ask_sz = ask[1].size,
                                 !.ask_ct = ask[1].count]
           ELSE with_bid]

\* C25: snapshot(n) has exactly n entries; entry i carries the i-th best bid
\* level and the i-th best ask level, with bid prices non-increasing and ask
\* prices non-decreasing in i; bbo() is entry 0's levels; on a side with
\* fewer than i+1 levels the entry's price, size and count are all 0.
C25_Snapshot ==
    \A n \in 0..MaxLevelCount :
        LET s == snapshot(Book, n)
        IN /\ Len(s) = n
           /\ \A k \in 1..n :
                 /\ IF bid_level(Book, k - 1) # None
                    THEN <<s[k].bid_px, s[k].bid_sz, s[k].bid_ct>> =
                         LET l == bid_level(Book, k - 1)[1]
                         IN <<l.price, l.size, l.count>>
                    ELSE <<s[k].bid_px, s[k].bid_sz, s[k].bid_ct>> = <<0, 0, 0>>
                 /\ IF ask_level(Book, k - 1) # None
                    THEN <<s[k].ask_px, s[k].ask_sz, s[k].ask_ct>> =
                         LET l == ask_level(Book, k - 1)[1]
                         IN <<l.price, l.size, l.count>>
                    ELSE <<s[k].ask_px, s[k].ask_sz, s[k].ask_ct>> = <<0, 0, 0>>
           /\ \A k \in 1..(n - 1) :
                 /\ s[k].bid_px >= s[k + 1].bid_px
                 /\ s[k].ask_px <= s[k + 1].ask_px
           /\ n >= 1 =>
                 /\ bbo(Book)[1] # None =>
                       bbo(Book)[1] = [price |-> s[1].bid_px, size |-> s[1].bid_sz,
                                       count |-> s[1].bid_ct]
                 /\ bbo(Book)[2] # None =>
                       bbo(Book)[2] = [price |-> s[1].ask_px, size |-> s[1].ask_sz,
                                       count |-> s[1].ask_ct]

\* the part of C25 that does not depend on the fill of a missing level:
\* lengths, the levels present, and bbo() against entry 0
C25_PresentLevels ==
    \A n \in 0..MaxLevelCount :
        LET s == snapshot(Book, n)
        IN /\ Len(s) = n
           /\ \A k \in 1..n :
                 /\ bid_level(Book, k - 1) # None =>
                       /\ bid_level(Book, k - 1)[1] =
                              [price |-> s[k].bid_px, size |-> s[k].bid_sz,
                               count |-> s[k].bid_ct]
                       /\ k > 1 => s[k - 1].bid_px >= s[k].bid_px
                 /\ ask_level(Book, k - 1) # None =>
                       /\ ask_level(Book, k - 1)[1] =
                              [price |-> s[k].ask_px, size |-> s[k].ask_sz,
                               count |-> s[k].ask_ct]
                       /\ k > 1 => s[k - 1].ask_px <= s[k].ask_px
                 /\ bid_level(Book, k - 1) = None => s[k].bid_sz = 0 /\ s[k].bid_ct = 0
                 /\ ask_level(Book, k - 1) = None => s[k].ask_sz = 0 /\ s[k].ask_ct = 0

BestLevelFaithful(levels, px, view) ==
    /\ view.price = px
    /\ view.count > 0 <=> \E i \in 1..Len(levels[px]) : ~levels[px][i].tob
    /\ view.size > 0 <=> \E i \in 1..Len(levels[px]) : levels[px][i].size > 0

ObservedOnlyMsgs ==
    {Msg(a, id, s, p, q, t) :
        a \in NoopActions, id \in Ids, s \in Sides, p \in MsgPrices,
        q \in Sizes, t \in BOOLEAN}

\* C27: Book.apply of a Trade, Fill or None message returns without error and
\* leaves bids, offers and orders_by_id unchanged, whatever the message's
\* side, price, size and order id are.
C27_ObservedOnly ==
    \A m \in ObservedOnlyMsgs : apply(Book, m) = [book |-> Book, res |-> "Ok"]

\* C27 witness: a book with resting orders on both sides that receives a Fill
\* naming a resting order, its side, its price and its size
C27_Witness ==
    /\ DOMAIN bids # {} /\ DOMAIN offers # {}
    /\ \E m \in ObservedOnlyMsgs :
          /\ m.action = "Fill"
          /\ m.order_id \in DOMAIN orders_by_id
          /\ m.side = orders_by_id[m.order_id].side
          /\ m.price = orders_by_id[m.order_id].price
          /\ PreSnapshotCancel(Book, m) = FALSE
          /\ m.size > 0
          /\ apply(Book, m).res = "Ok"

\* a Modify of an order that orders_by_id knows and whose indexed Level holds it
KnownModify(B, m) ==
    /\ m.order_id \in DOMAIN B.orders_by_id
    /\ IndexedPos(B, m.order_id) > 0
    /\ m.side \in {"Bid", "Ask"}

\* the Level at (side, price), empty when there is none
OrdersAt(B, side, price) ==
    IF LevelAt(B, side, price) = None THEN <<>> ELSE LevelAt(B, side, price)[1]

\* the order has left its previous Level, which is gone if that emptied it
LeftLevel(B, B2, id) ==
    LET prev == B.orders_by_id[id]
        rest == remove_order(IndexedLevel(B, id), id)
    IN LevelAt(B2, prev.side, prev.price) =
           (IF rest = <<>> THEN None ELSE Some(rest))

\* C28: a Modify of a known order that carries a side different from the
\* order's indexed side succeeds; the order is removed from the Level on its
\* previous side (the Level is removed if it becomes empty, and no Level of
\* the new side is removed), it is appended at the tail of the Level at
\* (new_side, new_price), and orders_by_id records (new_side, new_price).
C28_SideSwitch ==
    \A m \in ModifyMsgs :
        (KnownModify(Book, m) /\ m.side # orders_by_id[m.order_id].side)
        => LET r == apply(Book, m)
           IN /\ r.res = "Ok"
              /\ LeftLevel(Book, r.book, m.order_id)
              /\ DOMAIN side_levels(Book, m.side) \subseteq
                     DOMAIN side_levels(r.book, m.side)
              /\ LevelAt(r.book, m.side, m.price) =
                     Some(Append(OrdersAt(Book, m.side, m.price), StoredOrder(m)))
              /\ r.book.orders_by_id[m.order_id] =
                     [side |-> m.side, price |-> m.price]

\* C29: a Modify of a known order to a different price on the same side
\* removes the order from its current Level, removes that Level if it became
\* empty, and appends the order with the new size as the last order of the
\* Level at the new price, so that its queue_pos afterwards is the total size
\* of the orders that were already at the destination Level.
C29_PriceChange ==
    \A m \in ModifyMsgs :
        (/\ KnownModify(Book, m)
         /\ m.side = orders_by_id[m.order_id].side
         /\ m.price # orders_by_id[m.order_id].price)
        => LET r == apply(Book, m)
               dest == OrdersAt(Book, m.side, m.price)
           IN /\ r.res = "Ok"
              /\ LeftLevel(Book, r.book, m.order_id)
              /\ LevelAt(r.book, m.side, m.price) =
                     Some(Append(dest, StoredOrder(m)))
              /\ StoredOrder(m).size = m.size
              /\ queue_pos(r.book, m.order_id) = Some(SumSizes(dest))

\* the book a non-TOB Add hands to the repair: id indexed, order appended
Inserted(B, m) ==
    push_back_level([B EXCEPT !.orders_by_id =
                        MapPut(@, m.order_id, [side |-> m.side, price |-> m.price])],
                    m.side, m.price, StoredOrder(m))

\* a non-TOB Add that passes the checks of add and leaves best bid >= best ask
CrossingAdd(B, m) ==
    /\ ~m.tob /\ m.price # UNDEF_PRICE /\ m.side \in {"Bid", "Ask"}
    /\ m.order_id \notin DOMAIN B.orders_by_id
    /\ IsCrossed(Inserted(B, m))

\* the ids of the orders in the Levels of `levels` at the prices `pxs`
IdsAt(levels, pxs) ==
    UNION {{levels[p][i].order_id : i \in 1..Len(levels[p])} : p \in pxs}

\* the (side, price) pairs of the Levels the repair removed
RemovedKeys(P, R) ==
    {<<"Bid", p>> : p \in DOMAIN P.bids \ DOMAIN R.bids}
    \cup {<<"Ask", p>> : p \in DOMAIN P.offers \ DOMAIN R.offers}

\* C30: when a non-TOB Add leaves best bid >= best ask, the repair removes
\* whole best-bid and best-ask Levels, pair by pair while the pair is crossed,
\* until one side is empty or best bid < best ask; it removes from
\* orders_by_id the id of every order of a removed Level, and leaves every
\* other Level and every id entry that was not at a removed price as it was.
C30_CrossedRepair ==
    \A m \in AddMsgs :
        CrossingAdd(Book, m)
        => LET P == Inserted(Book, m)
               r == apply(Book, m)
               R == r.book
               gone_bids == DOMAIN P.bids \ DOMAIN R.bids
               gone_asks == DOMAIN P.offers \ DOMAIN R.offers
               k == Cardinality(gone_bids)
           IN /\ r.res = "Ok"
              /\ ~IsCrossed(R)
              /\ DOMAIN R.bids \subseteq DOMAIN P.bids
              /\ DOMAIN R.offers \subseteq DOMAIN P.offers
              /\ \A p \in DOMAIN R.bids : R.bids[p] = P.bids[p]
              /\ \A p \in DOMAIN R.offers : R.offers[p] = P.offers[p]
              /\ k >= 1 /\ Cardinality(gone_asks) = k
              /\ \A j \in 0..(k - 1) :
                    /\ NthMax(DOMAIN P.bids, j) \in gone_bids
                    /\ NthMin(DOMAIN P.offers, j) \in gone_asks
                    /\ NthMax(DOMAIN P.bids, j) >= NthMin(DOMAIN P.offers, j)
              /\ \A id \in IdsAt(P.bids, gone_bids) \cup IdsAt(P.offers, gone_asks) :
                    id \notin DOMAIN R.orders_by_id
              /\ \A id \in DOMAIN P.orders_by_id :
                    <<P.orders_by_id[id].side, P.orders_by_id[id].price>>
                        \notin RemovedKeys(P, R)
                    => /\ id \in DOMAIN R.orders_by_id
                       /\ R.orders_by_id[id] = P.orders_by_id[id]

\* an Add with the TOB flag and a valid side
TobAdd(m) == m.tob /\ m.side \in {"Bid", "Ask"}

OppositeSide(side) == IF side = "Bid" THEN "Ask" ELSE "Bid"

\* C31: an Add with the TOB flag replaces its whole side: afterwards the side
\* holds exactly one Level, at the message price and containing only this
\* order, or no Level at all when the price is UNDEF_PRICE; the opposite side
\* is unchanged; and the TOB order is not entered in orders_by_id.
C31_TobReplacesSide ==
    \A m \in AddMsgs :
        TobAdd(m)
        => LET r == apply(Book, m)
           IN /\ r.res = "Ok"
              /\ side_levels(r.book, m.side) =
                     (IF m.price = UNDEF_PRICE THEN EmptyMap
                      ELSE (m.price :> <<StoredOrder(m)>>))
              /\ side_levels(r.book, OppositeSide(m.side)) =
                     side_levels(Book, OppositeSide(m.side))
              /\ r.book.orders_by_id = orders_by_id

\* C31 witness: a side with two Levels of resting orders, the other side not
\* empty, and TOB Adds for that side with and without a price
C31_Witness ==
    /\ Cardinality(DOMAIN bids) >= 2 /\ DOMAIN offers # {}
    /\ \E m \in AddMsgs :
          /\ TobAdd(m) /\ m.side = "Bid" /\ m.price \notin DOMAIN bids
          /\ m.price # UNDEF_PRICE /\ m.order_id \notin DOMAIN orders_by_id
          /\ DOMAIN apply(Book, m).book.bids = {m.price}
    /\ \E m \in AddMsgs :
          /\ TobAdd(m) /\ m.side = "Bid" /\ m.price = UNDEF_PRICE
          /\ apply(Book, m).book.bids = EmptyMap

\* a Cancel that finds its order in the Level at (side, price) and does not
\* ask for more than the order has
CoveredCancel(B, m) ==
    /\ ~PreSnapshotCancel(B, m)
    /\ LET level == side_levels(B, m.side)[m.price]
       IN m.size <= level[find_order(level, m.order_id)].size

\* C32: a Cancel that finds its order in the Level at (side, price) with
\* size <= the order's size reduces the order's size by exactly msg.size and
\* keeps its position; if the size reaches zero the order is removed from the
\* Level, the Level is removed from the side index if it became empty, and
\* the id is removed from orders_by_id; if the size stays positive the order
\* and its id entry remain.  In S1-S3 the best bid (100,10,1) becomes
\* (100,6,1) after cancelling 4 and None after cancelling the remaining 6.
C32_CancelReduces ==
    /\ \A m \in CancelMsgs :
          CoveredCancel(Book, m)
          => LET levels == side_levels(Book, m.side)
                 level == levels[m.price]
                 idx == find_order(level, m.order_id)
                 left == level[idx].size - m.size
                 r == apply(Book, m)
             IN /\ r.res = "Ok"
                /\ side_levels(r.book, OppositeSide(m.side)) =
                       side_levels(Book, OppositeSide(m.side))
                /\ \A p \in DOMAIN levels \ {m.price} :
                       LevelAt(r.book, m.side, p) = Some(levels[p])
                /\ DOMAIN side_levels(r.book, m.side) \subseteq DOMAIN levels
                /\ IF left > 0
                   THEN /\ LevelAt(r.book, m.side, m.price) =
                               Some([level EXCEPT ![idx].size = left])
                        /\ r.book.orders_by_id = orders_by_id
                   ELSE /\ LevelAt(r.book, m.side, m.price) =
                               (IF Len(level) = 1 THEN None
                                ELSE Some(RemoveAt(level, idx)))
                        /\ r.book.orders_by_id = MapDel(orders_by_id, m.order_id)
    /\ LET S1 == BookAfter(NewBook, <<S_Add1, S_Add2Ask>>)
           S2 == BookAfter(S1, <<S_Cancel4>>)
           S3 == BookAfter(S2, <<S_Cancel6>>)
       IN /\ bbo(S1)[1] = Some([price |-> 100, size |-> 10, count |-> 1])
          /\ bbo(S2)[1] = Some([price |-> 100, size |-> 6, count |-> 1])
          /\ 1 \in DOMAIN S2.orders_by_id
          /\ bbo(S3) = <<None, Some([price |-> 101, size |-> 5, count |-> 1])>>
          /\ 1 \notin DOMAIN S3.orders_by_id

\* C32 witness: a Level with two orders, of which the first can be cancelled
\* in part and in full, and a Level with one order that a Cancel empties
C32_Witness ==
    /\ \E m1, m2 \in CancelMsgs :
          /\ CoveredCancel(Book, m1) /\ CoveredCancel(Book, m2)
          /\ m1.order_id = m2.order_id /\ m1.side = m2.side /\ m1.price = m2.price
          /\ Len(side_levels(Book, m1.side)[m1.price]) = 2
          /\ find_order(side_levels(Book, m1.side)[m1.price], m1.order_id) = 1
          /\ m1.size > 0
          /\ Len(side_levels(apply(Book, m1).book, m1.side)[m1.price]) = 2
          /\ Len(side_levels(apply(Book, m2).book, m1.side)[m1.price]) = 1
    /\ \E m \in CancelMsgs :
          /\ CoveredCancel(Book, m)
          /\ Len(side_levels(Book, m.side)[m.price]) = 1
          /\ LevelAt(apply(Book, m).book, m.side, m.price) = None

\* a non-TOB Add that passes the checks of add and leaves the book uncrossed
QuietAdd(B, m) ==
    /\ ~m.tob /\ m.price # UNDEF_PRICE /\ m.side \in {"Bid", "Ask"}
    /\ m.order_id \notin DOMAIN B.orders_by_id
    /\ ~IsCrossed(Inserted(B, m))

\* C33: a successful non-TOB Add that does not trigger crossed-book repair
\* appends the order as the last order of the Level at (side, price): the
\* queue_pos of every order already in the book is unchanged, and the new
\* order's queue_pos equals the total size of the orders that were already
\* at that Level.
C33_AddAppends ==
    \A m \in AddMsgs :
        QuietAdd(Book, m)
        => LET r == apply(Book, m)
               dest == OrdersAt(Book, m.side, m.price)
           IN /\ r.res = "Ok"
              /\ LevelAt(r.book, m.side, m.price) = Some(Append(dest, StoredOrder(m)))
              /\ \A id \in Ids :
                    order(Book, id) # None
                    => queue_pos(r.book, id) = queue_pos(Book, id)
              /\ queue_pos(r.book, m.order_id) = Some(SumSizes(dest))

\* every message of the input domain of Book.apply
ApplyMsgs ==
    AddMsgs \cup CancelMsgs \cup ModifyMsgs \cup ClearMsgs \cup NoopMsgs
    \cup ObservedOnlyMsgs

\* C34: whenever Book.apply returns an error, bids, offers and orders_by_id
\* are exactly as they were before the call; in particular a rejected Add or
\* Modify does not change the (side, price) recorded for an id.
C34_ErrorsLeaveBook ==
    \A m \in ApplyMsgs :
        apply(Book, m).res \notin {"Ok", "Skipped"} => apply(Book, m).book = Book

(***************************************************************************)
(* The replay restricted to messages whose side is Bid or Ask and whose    *)
(* action is one of the seven actions.                                     *)
(***************************************************************************)
ValidSides == {"Bid", "Ask"}
ValidAddMsgs == {m \in AddMsgs : m.side \in ValidSides}
ValidCancelMsgs == {m \in CancelMsgs : m.side \in ValidSides}
ValidModifyMsgs == {m \in ModifyMsgs : m.side \in ValidSides}
ValidClearMsgs == {Msg("Clear", 0, s, UNDEF_PRICE, 0, FALSE) : s \in ValidSides}
ValidObservedMsgs == {m \in ObservedOnlyMsgs : m.side \in ValidSides}
ValidMsgs ==
    ValidAddMsgs \cup ValidCancelMsgs \cup ValidModifyMsgs \cup ValidClearMsgs
    \cup ValidObservedMsgs

AddValid ==
    /\ Replayed
    /\ \E m \in ValidAddMsgs : Step(m)

CancelValid ==
    /\ Replayed
    /\ \E m \in ValidCancelMsgs : Step(m)

ModifyValid ==
    /\ Replayed
    /\ \E m \in ValidModifyMsgs : Step(m)

ClearValid ==
    /\ Replayed
    /\ \E m \in ValidClearMsgs : Step(m)

ObservedValid ==
    /\ Replayed
    /\ \E m \in ValidObservedMsgs : Step(m)

NextValidSides == AddValid \/ CancelValid \/ ModifyValid \/ ClearValid \/ ObservedValid

SpecValidSides == Init /\ [][NextValidSides]_vars

\* C35: under any sequence of messages with valid sides and actions,
\* Book.apply never fails with an internal-inconsistency error ('Level not
\* found' after a successful id lookup, 'order not found in level', 'order
\* index out of bounds'), also for orders that rested on a side later
\* replaced by a TOB Add.
C35_NoInternalInconsistency ==
    \A m \in ValidMsgs : apply(Book, m).res # "InternalInconsistency"

\* C36: a non-TOB Add is rejected as DuplicateOrder only if order(order_id)
\* currently returns an order: once an order has left the book (full Cancel,
\* Clear, crossed-book repair, replacement of its side by a TOB Add), a later
\* non-TOB Add that reuses its id succeeds.
C36_DuplicateOnlyIfResting ==
    \A m \in ValidAddMsgs :
        ~m.tob =>
            /\ apply(Book, m).res = "DuplicateOrder" => order(Book, m.order_id) # None
            /\ (order(Book, m.order_id) = None /\ m.price # UNDEF_PRICE)
               => apply(Book, m).res = "Ok"

\* C37: in every reachable state and for every order id, queue_pos(id)
\* returns a value exactly when order(id) returns an order.
C37_QueriesAgree ==
    \A id \in Ids : (queue_pos(Book, id) # None) <=> (order(Book, id) # None)

\* the Books of instrument i in M, in publisher order (none: the empty sequence)
BooksOf(M, i) == IF i \in DOMAIN M THEN M[i] ELSE <<>>

\* R differs from M at most in the Book of (i, p)
MarketFrame(M, R, i, p) ==
    /\ \A i2 \in Instruments \ {i} :
          /\ i2 \in DOMAIN R <=> i2 \in DOMAIN M
          /\ BooksOf(R, i2) = BooksOf(M, i2)
          /\ aggregated_bbo(R, i2) = aggregated_bbo(M, i2)
    /\ Len(BooksOf(R, i)) >= Len(BooksOf(M, i))
    /\ \A k \in 1..Len(BooksOf(M, i)) :
          M[i][k].publisher # p
          => /\ R[i][k] = M[i][k]
             /\ bbo(R[i][k].book) = bbo(M[i][k].book)
    /\ \A k \in (Len(BooksOf(M, i)) + 1)..Len(BooksOf(R, i)) :
          R[i][k].publisher = p

\* C38: Market.apply(msg) changes at most the Book of (msg.instrument_id,
\* msg.publisher): the Books of every other publisher of that instrument and
\* of every other instrument, and their aggregated BBO contributions, are
\* unchanged.
C38_MarketFrame ==
    [][\E m \in MarketMsgs :
          /\ hist' = Append(hist, m)
          /\ books' = market_apply(books, m).market
          /\ MarketFrame(books, books', m.instrument_id, m.publisher_id)]_vars

\* C38 witness: a Market with two instruments, one of them with the Books of
\* two publishers that hold orders, and a message that changes one of them
C38_Witness ==
    /\ Cardinality(DOMAIN books) = 2
    /\ \E m \in MarketMsgs :
          LET i == m.instrument_id
          IN /\ i \in DOMAIN books /\ Len(books[i]) >= 2
             /\ \A k \in 1..Len(books[i]) : books[i][k].book # NewBook
             /\ \E k \in 1..Len(books[i]) :
                   /\ books[i][k].publisher = m.publisher_id
                   /\ market_apply(books, m).market[i][k].book # books[i][k].book

\* C39: at every point of the replay, also when it aborts on a Market.apply
\* error, every record handed to the persistence sink belongs to a message
\* that has been applied to the Market and has a snapshot: the number of
\* persisted records never exceeds the number of snapshots produced.
C39_SinkBehindReplay ==
    LET persisted == Flatten(sink)
    IN /\ Len(persisted) <= Len(snapshots)
       /\ \A k \in 1..Len(persisted) :
             k <= Len(snapshots) /\ snapshots[k].applied_mbo_msg = persisted[k]

(***************************************************************************)
(* Book::match_crossed_orders turn by turn: the loop is entered on a book  *)
(* with any Levels on the two sides, crossed or not, and steps counts its  *)
(* turns.  Every Level holds one resting order, indexed in orders_by_id.   *)
(***************************************************************************)
RestingAt(side, p) ==
    [order_id |-> IF side = "Bid" THEN p ELSE MaxPrice + p,
     side |-> side, price |-> p, size |-> 1, tob |-> FALSE]

LevelsAt(side, pxs) == [p \in pxs |-> <<RestingAt(side, p)>>]

IndexOf(bid_pxs, ask_pxs) ==
    [id \in bid_pxs \cup {MaxPrice + p : p \in ask_pxs} |->
        IF id <= MaxPrice THEN [side |-> "Bid", price |-> id]
        ELSE [side |-> "Ask", price |-> id - MaxPrice]]

\* the `(Some(bid_px), Some(ask_px)) if bid_px >= ask_px` arm, lines 165-190
RepairTurn ==
    /\ repair = "loop"
    /\ IsCrossed(Book)
    /\ LET B == remove_crossed_levels(Book)
       IN /\ orders_by_id' = B.orders_by_id
          /\ offers' = B.offers
          /\ bids' = B.bids
    /\ steps' = steps + 1
    /\ UNCHANGED <<repair, hist, books, loaderVars, sseVars>>

\* the `_ => break` arm, lines 192-195
RepairBreak ==
    /\ repair = "loop"
    /\ ~IsCrossed(Book)
    /\ repair' = "done"
    /\ UNCHANGED <<bookVars, steps, hist, books, loaderVars, sseVars>>

InitRepair ==
    /\ \E bid_pxs, ask_pxs \in SUBSET Prices :
          /\ bids = LevelsAt("Bid", bid_pxs)
          /\ offers = LevelsAt("Ask", ask_pxs)
          /\ orders_by_id = IndexOf(bid_pxs, ask_pxs)
    /\ steps = 0 /\ hist = <<>> /\ books = EmptyMap
    /\ storage = FALSE /\ snapshots = <<>> /\ batch = <<>> /\ sink = <<>>
    /\ status = "Running" /\ hash_order = "asc" /\ NoStreams
    /\ repair = "loop"

NextRepair == RepairTurn \/ RepairBreak

\* the loop runs in the thread that called add: a turn that can be taken is taken
SpecRepair == InitRepair /\ [][NextRepair]_vars /\ WF_vars(NextRepair)

LevelCount == Cardinality(DOMAIN bids) + Cardinality(DOMAIN offers)

\* C40: crossed-book repair terminates for every finite book: each turn of
\* its loop removes at least one Level, and the loop exits only in a state
\* where one side is empty or best bid < best ask.
C40_RepairTerminates ==
    /\ [][(repair = "loop" /\ repair' = "loop") => LevelCount' < LevelCount]_vars
    /\ [](repair = "done" =>
             \/ DOMAIN bids = {} \/ DOMAIN offers = {}
             \/ SetMax(DOMAIN bids) < SetMin(DOMAIN offers))
    /\ <>(repair = "done")

\* C40 witness: the loop has left after two turns with Levels on both sides
C40_Witness ==
    /\ repair = "done" /\ steps = 2
    /\ DOMAIN bids # {} /\ DOMAIN offers # {}

====
